---- MODULE Spec2Model ----
(***************************************************************************)
(* A model of the directed two-phase channel of src/src/directed.rs.       *)
(*                                                                         *)
(* A DirectedChannel is a heap box holding two slots, read_only and        *)
(* writable.  create hands out the owning DirectedChannelPointer and two   *)
(* raw data pointers, which store the addresses of the two slots.  The     *)
(* data pointers are dereferenced unchecked (unsafe), so the model keeps   *)
(* the heap, the pointer values that exist and the references that are     *)
(* live as separate pieces of state.                                       *)
(***************************************************************************)
EXTENDS Integers, Sequences, FiniteSets

\* Bounds of the model.
MaxVal == 1         \* Data ranges over 0..MaxVal
MaxPtrs == 2        \* data pointer values of one kind holding the same address
MaxObs == 3         \* length of the reader's log in the three-thread scenario
MaxIter == 6        \* largest n of the sequential protocol

\* The heap addresses at which the model allocates channel boxes: room for a
\* channel and a second, independently created one.
Addrs == {1, 2}
Values == 0..MaxVal

VARIABLES
    heap,       \* Addrs -> the box at that address: allocated or not, and its two slots
    ro_ptrs,    \* Addrs -> how many ReadOnlyDataPointer values hold the read_only address of that box
    w_ptrs,     \* Addrs -> how many WritableDataPointer values hold the writable address of that box
    key,        \* the capability key that is outstanding: "none", "data" or "channel"
    last,       \* the last call made on the channel API: its name, its box address and how it ended
    roRef,      \* the reference the reader got from ReadOnlyDataPointer::get, if live
    wRef,       \* the reference the writer got from WritableDataPointer::get / get_mut, if live
    observed,   \* the values the reading thread read, oldest first
    pc,         \* position of the scenario that drives the calls
    test        \* inputs and loop counter of the scenario

vars == <<heap, ro_ptrs, w_ptrs, key, last, roRef, wRef, observed, pc, test>>

\* What the calls of directed.rs leave alone: the references held by the threads
\* of a scenario, the reader's log and the scenario's position.
refVars == <<roRef, wRef, observed>>
scenarioVars == <<pc, test>>

----------------------------------------------------------------------------
\* The channel and its pointers

\* struct DirectedChannel { read_only, writable }, inside the Box of a channel pointer.
DirectedChannel(read_only, writable) ==
    [alloc |-> TRUE, read_only |-> read_only, writable |-> writable]

\* A heap address at which no box is allocated.
Free == [alloc |-> FALSE, read_only |-> 0, writable |-> 0]

\* (&channel.read_only) as *const Data: the first field of the box at address a.
RoAddr(a) == 2 * a

\* (&mut channel.writable) as *mut Data: the second field of the box at address a.
WAddr(a) == 2 * a + 1

\* A DirectedChannelPointer owns its Box: it exists exactly while the box is allocated.
ChannelPointers == {a \in Addrs : heap[a].alloc}

\* The record of a call on the channel API: its name, the box address of the
\* pointer it was made on, the values it returned, whether it panicked and at
\* which assertion, and for a flush whether it is the first of a run of flushes
\* of that box or a later one.
NoCall ==
    [op |-> "none", a |-> 0, ret |-> <<>>, panic |-> FALSE, at |-> "none", run |-> 0]
Call(op, a, ret) ==
    [op |-> op, a |-> a, ret |-> ret, panic |-> FALSE, at |-> "none", run |-> 0]
Panicked(op, a, at) ==
    [op |-> op, a |-> a, ret |-> <<>>, panic |-> TRUE, at |-> at, run |-> 0]

FlushOps == {"channel_flush", "flush", "dyn_flush"}
DestroyOps == {"destroy", "destroy_single"}
Flushed(op, a) ==
    [op |-> op, a |-> a, ret |-> <<>>, panic |-> FALSE, at |-> "none",
     run |-> IF last.op \in FlushOps /\ last.a = a THEN 2 ELSE 1]

NoRef == [kind |-> "none", a |-> 0, snap |-> 0]
Ref(kind, a, snap) == [kind |-> kind, a |-> a, snap |-> snap]

----------------------------------------------------------------------------
\* The capability keys (crate::{MasterKey, DataKey, ChannelKey}). Their code is not
\* part of directed.rs and is modelled from the specification: one key is
\* outstanding at a time, a data key or a channel key, and a data key is turned
\* into a channel key by a conversion that consumes it.

\* master_key.get_data_key()
GetDataKeyCall ==
    /\ key = "none"
    /\ key' = "data"
    /\ UNCHANGED <<heap, ro_ptrs, w_ptrs, last>>

\* master_key.get_channel_key()
GetChannelKeyCall ==
    /\ key = "none"
    /\ key' = "channel"
    /\ UNCHANGED <<heap, ro_ptrs, w_ptrs, last>>

\* data_key.into_channel_key()
IntoChannelKeyCall ==
    /\ key = "data"
    /\ key' = "channel"
    /\ UNCHANGED <<heap, ro_ptrs, w_ptrs, last>>

\* The outstanding key goes out of scope.
DropKeyCall ==
    /\ key # "none"
    /\ key' = "none"
    /\ UNCHANGED <<heap, ro_ptrs, w_ptrs, last>>

----------------------------------------------------------------------------
\* Creation

\* DirectedChannel::create: Box::new puts the channel at an address a that is
\* not allocated, and the two data pointers take the addresses of its slots.
\* The allocator of the model hands out an address again only when no data
\* pointer holds it any more.
CreateCall(op, a, read_only, writable) ==
    /\ ~heap[a].alloc
    /\ ro_ptrs[a] = 0
    /\ w_ptrs[a] = 0
    /\ heap' = [heap EXCEPT ![a] = DirectedChannel(read_only, writable)]
    /\ ro_ptrs' = [ro_ptrs EXCEPT ![a] = 1]
    /\ w_ptrs' = [w_ptrs EXCEPT ![a] = 1]
    /\ last' = Call(op, a, <<>>)
    /\ UNCHANGED key

\* A create_equal that leaves read_only at a default value and does not clone.
CreateEqual_DefaultReadOnly(a, data) ==
    CreateCall("create_equal", a, 0, data)

\* DirectedChannel::create_equal: Self::create(data.clone(), data).
CreateEqualCall(a, data) ==
    CreateCall("create_equal", a, data, data)

\* A Copy implementation given to the writable pointer type.
Copy_Writable(a) ==
    /\ w_ptrs[a] > 0
    /\ w_ptrs[a] < MaxPtrs
    /\ w_ptrs' = [w_ptrs EXCEPT ![a] = @ + 1]
    /\ UNCHANGED <<heap, ro_ptrs, key, last>>

\* impl Clone / Copy for ReadOnlyDataPointer: one more pointer with the same address.
CopyCall(a) ==
    /\ ro_ptrs[a] > 0
    /\ ro_ptrs[a] < MaxPtrs
    /\ ro_ptrs' = [ro_ptrs EXCEPT ![a] = @ + 1]
    /\ UNCHANGED <<heap, w_ptrs, key, last>>

\* Dropping a DirectedChannelPointer drops its Box: the storage is released, and
\* the data pointers, which are raw, stay as they are.
DropCall(a) ==
    /\ a \in ChannelPointers
    /\ heap' = [heap EXCEPT ![a] = Free]
    /\ last' = Call("drop", a, <<>>)
    /\ UNCHANGED <<ro_ptrs, w_ptrs, key>>

----------------------------------------------------------------------------
\* Flush

\* A flush that copies the wrong way: writable = read_only.clone().
Flush_Reversed(channel) ==
    [channel EXCEPT !.writable = channel.read_only]

\* A flush that moves the value out of the writable slot (mem::take) where the
\* code clones it.
Flush_TakesWritable(channel) ==
    [alloc |-> channel.alloc, read_only |-> channel.writable, writable |-> 0]

\* DirectedChannel::flush: self.read_only = self.writable.clone().
DirectedChannel_flush(channel) ==
    [channel EXCEPT !.read_only = channel.writable]

\* DirectedChannelPointer::flush: channel.read_only = channel.writable.clone(),
\* on the channel in the pointer's Box.
DirectedChannelPointer_flush(channel) ==
    [alloc |-> channel.alloc, read_only |-> channel.writable, writable |-> channel.writable]

\* <DirectedChannelPointer as IDirectedChannel>::flush calls DirectedChannelPointer::flush.
IDirectedChannel_flush(channel) ==
    DirectedChannelPointer_flush(channel)

\* A flush that runs over every live channel, not only the one it was called on.
Flush_EveryChannel(op, a, flushed) ==
    /\ key = "channel"
    /\ a \in ChannelPointers
    /\ heap' = [b \in Addrs |->
                    IF b = a THEN flushed
                    ELSE IF heap[b].alloc THEN DirectedChannel_flush(heap[b])
                    ELSE heap[b]]
    /\ last' = Flushed(op, a)
    /\ UNCHANGED <<ro_ptrs, w_ptrs, key>>

\* A flush call takes &mut self on the channel (pointer) of box a and a &ChannelKey.
FlushCall(op, a, flushed) ==
    /\ key = "channel"
    /\ a \in ChannelPointers
    /\ heap' = [heap EXCEPT ![a] = flushed]
    /\ last' = Flushed(op, a)
    /\ UNCHANGED <<ro_ptrs, w_ptrs, key>>

----------------------------------------------------------------------------
\* Data access

\* unsafe { &*self.data }: what a read of the slot at a data pointer's address
\* gives. The address is not checked; reading a box that was released is
\* undefined behaviour and can give any value.
Deref(a, slot) ==
    IF heap[a].alloc THEN {heap[a][slot]} ELSE Values

\* A write through a writable pointer whose two slots share storage.
Write_BothSlots(a, v) ==
    IF heap[a].alloc
    THEN [heap EXCEPT ![a] = DirectedChannel(v, v)]
    ELSE heap

\* A writable pointer that was given the address of the read_only slot.
Write_ToReadOnly(a, v) ==
    IF heap[a].alloc THEN [heap EXCEPT ![a].read_only = v] ELSE heap

\* unsafe { &mut *self.data } followed by an assignment: the heap after a write of
\* v through a writable pointer holding the address of box a. A write into a box
\* that was released is undefined behaviour; it changes no live channel.
WriteThrough(a, v) ==
    IF heap[a].alloc THEN [heap EXCEPT ![a].writable = v] ELSE heap

\* *read_only_data_pointer.get(&data_key): the reference is used and dropped at once.
ReadOnlyGetCall(a) ==
    /\ key = "data"
    /\ ro_ptrs[a] > 0
    /\ \E val \in Deref(a, "read_only") : last' = Call("ro_get", a, <<val>>)
    /\ UNCHANGED <<heap, ro_ptrs, w_ptrs, key>>

\* *writable_data_pointer.get(&data_key)
WritableGetCall(a) ==
    /\ key = "data"
    /\ w_ptrs[a] > 0
    /\ \E val \in Deref(a, "writable") : last' = Call("w_get", a, <<val>>)
    /\ UNCHANGED <<heap, ro_ptrs, w_ptrs, key>>

\* *writable_data_pointer.get_mut(&data_key) = v
WritableGetMutCall(a, v) ==
    /\ key = "data"
    /\ w_ptrs[a] > 0
    /\ heap' = WriteThrough(a, v)
    /\ last' = Call("w_get_mut", a, <<>>)
    /\ UNCHANGED <<ro_ptrs, w_ptrs, key>>

----------------------------------------------------------------------------
\* Teardown

\* The collections of read-only pointers a caller can present: for each address,
\* how many of the pointers holding it are handed over.
Presentable == {p \in [Addrs -> 0..MaxPtrs] : \A a \in Addrs : p[a] <= ro_ptrs[a]}

\* [read_only_data_pointer]: the collection destroy_single presents.
Single(ra) == [a \in Addrs |-> IF a = ra THEN 1 ELSE 0]

\* A check of the writable pointer against the address of the read_only slot.
Writable_ComparedToReadOnly(c, wa) ==
    RoAddr(c) = WAddr(wa)

\* assert_eq!(channel_writable_data_pointer, writable_data_pointer)
WritableMatches(c, wa) == WAddr(c) = WAddr(wa)

\* A check that also wants at least one read-only pointer of the channel.
ReadOnly_AtLeastOne(c, presented) ==
    /\ presented[c] > 0
    /\ \A a \in Addrs : presented[a] > 0 => RoAddr(c) = RoAddr(a)

\* A destroy that leaves out the loop over the read-only pointers.
ReadOnly_Unchecked(c, presented) == TRUE

\* The loop of assert_eq!(channel_read_only_data_pointer, read_only_data_pointer)
\* over the presented pointers.
ReadOnlyMatch(c, presented) ==
    \A a \in Addrs : presented[a] > 0 => RoAddr(c) = RoAddr(a)

\* A destroy that returns the pair the other way round.
Return_Swapped(channel) == <<channel.writable, channel.read_only>>

\* A destroy that inspects the read-only pointers before the writable pointer.
Assert_ReadOnlyFirst(c, presented, wa) ==
    IF ~ReadOnlyMatch(c, presented) THEN "read_only" ELSE "writable"

\* The assertion at which a destroy with a pointer that does not match panics:
\* the assert_eq! on the writable pointer comes first, the loop over the
\* read-only pointers after it.
FailedAssert(c, presented, wa) ==
    IF ~WritableMatches(c, wa) THEN "writable" ELSE "read_only"

\* (channel.read_only, channel.writable): the pair destroy returns.
DestroyReturn(channel) == <<channel.read_only, channel.writable>>

\* DirectedChannel::destroy on the channel pointer of box c, the presented
\* read-only pointers and a writable pointer holding the address of box wa. All
\* arguments are taken by value; the Box is dropped when the call returns and
\* when it panics.
DestroyCall(op, c, presented, wa) ==
    /\ c \in ChannelPointers
    /\ w_ptrs[wa] > 0
    /\ presented \in Presentable
    /\ heap' = [heap EXCEPT ![c] = Free]
    /\ w_ptrs' = [w_ptrs EXCEPT ![wa] = @ - 1]
    /\ ro_ptrs' = [a \in Addrs |-> ro_ptrs[a] - presented[a]]
    /\ last' = IF WritableMatches(c, wa) /\ ReadOnlyMatch(c, presented)
               THEN Call(op, c, DestroyReturn(heap[c]))
               ELSE Panicked(op, c, FailedAssert(c, presented, wa))
    /\ UNCHANGED key

\* DirectedChannel::destroy_single: Self::destroy with [read_only_data_pointer].
DestroySingleCall(c, ra, wa) ==
    DestroyCall("destroy_single", c, Single(ra), wa)

----------------------------------------------------------------------------
\* Any program using the API: channels are created, used and torn down in any
\* order, and every reference is dropped in the statement that took it.

Init ==
    /\ heap = [a \in Addrs |-> Free]
    /\ ro_ptrs = [a \in Addrs |-> 0]
    /\ w_ptrs = [a \in Addrs |-> 0]
    /\ key = "none"
    /\ last = NoCall
    /\ roRef = NoRef
    /\ wRef = NoRef
    /\ observed = <<>>
    /\ pc = "any"
    /\ test = [n |-> 0, i |-> 0, read_only |-> 0, writable |-> 0]

GetDataKey == GetDataKeyCall /\ UNCHANGED <<refVars, scenarioVars>>

GetChannelKey == GetChannelKeyCall /\ UNCHANGED <<refVars, scenarioVars>>

IntoChannelKey == IntoChannelKeyCall /\ UNCHANGED <<refVars, scenarioVars>>

DropKey == DropKeyCall /\ UNCHANGED <<refVars, scenarioVars>>

Create ==
    /\ \E a \in Addrs, read_only \in Values, writable \in Values :
            CreateCall("create", a, read_only, writable)
    /\ UNCHANGED <<refVars, scenarioVars>>

CreateEqual ==
    /\ \E a \in Addrs, data \in Values : CreateEqualCall(a, data)
    /\ UNCHANGED <<refVars, scenarioVars>>

CopyReadOnly ==
    /\ \E a \in Addrs : CopyCall(a)
    /\ UNCHANGED <<refVars, scenarioVars>>

DropChannelPointer ==
    /\ \E a \in Addrs : DropCall(a)
    /\ UNCHANGED <<refVars, scenarioVars>>

FlushChannel ==
    /\ \E a \in Addrs : FlushCall("channel_flush", a, DirectedChannel_flush(heap[a]))
    /\ UNCHANGED <<refVars, scenarioVars>>

FlushPointer ==
    /\ \E a \in Addrs : FlushCall("flush", a, DirectedChannelPointer_flush(heap[a]))
    /\ UNCHANGED <<refVars, scenarioVars>>

FlushDyn ==
    /\ \E a \in Addrs : FlushCall("dyn_flush", a, IDirectedChannel_flush(heap[a]))
    /\ UNCHANGED <<refVars, scenarioVars>>

ReadOnlyGet ==
    /\ \E a \in Addrs : ReadOnlyGetCall(a)
    /\ UNCHANGED <<refVars, scenarioVars>>

WritableGet ==
    /\ \E a \in Addrs : WritableGetCall(a)
    /\ UNCHANGED <<refVars, scenarioVars>>

WritableGetMut ==
    /\ \E a \in Addrs, v \in Values : WritableGetMutCall(a, v)
    /\ UNCHANGED <<refVars, scenarioVars>>

Destroy ==
    /\ \E c \in Addrs, wa \in Addrs, presented \in [Addrs -> 0..MaxPtrs] :
            DestroyCall("destroy", c, presented, wa)
    /\ UNCHANGED <<refVars, scenarioVars>>

DestroySingle ==
    /\ \E c \in Addrs, ra \in Addrs, wa \in Addrs : DestroySingleCall(c, ra, wa)
    /\ UNCHANGED <<refVars, scenarioVars>>

Next ==
    \/ GetDataKey
    \/ GetChannelKey
    \/ IntoChannelKey
    \/ DropKey
    \/ Create
    \/ CreateEqual
    \/ CopyReadOnly
    \/ DropChannelPointer
    \/ FlushChannel
    \/ FlushPointer
    \/ FlushDyn
    \/ ReadOnlyGet
    \/ WritableGet
    \/ WritableGetMut
    \/ Destroy
    \/ DestroySingle

Spec == Init /\ [][Next]_vars

----------------------------------------------------------------------------
\* The three-thread scenario: on a channel made by create(0, 0), a writer thread
\* writes 0, 1, ..., n in order, a flusher thread flushes after each write, and
\* a reader thread reads the read-only slot. The threads share the keys; each
\* keeps the reference an accessor gave it for as long as it likes, because
\* get(&self, &DataKey) -> &Data and get_mut(&mut self, &DataKey) -> &mut Data
\* tie the reference to the borrow of the pointer only (lifetime elision), not
\* to the key.

\* The box of the scenario's channel.
Chan == 1

Init3T ==
    /\ heap = [a \in Addrs |-> IF a = Chan THEN DirectedChannel(0, 0) ELSE Free]
    /\ ro_ptrs = [a \in Addrs |-> IF a = Chan THEN 1 ELSE 0]
    /\ w_ptrs = [a \in Addrs |-> IF a = Chan THEN 1 ELSE 0]
    /\ key = "none"
    /\ last = Call("create", Chan, <<>>)
    /\ roRef = NoRef
    /\ wRef = NoRef
    /\ observed = <<>>
    /\ pc = "write"
    /\ test = [n |-> MaxVal, i |-> 0, read_only |-> 0, writable |-> 0]

\* What a read through a live shared reference to the read_only slot gives. A
\* shared reference promises that the slot does not change while it is live, so
\* after a flush has overwritten the slot the read is undefined behaviour: the
\* build may use the value it loaded when the reference was taken or load the
\* slot again. A reference into a released box can give any value.
ReadRef(ref) ==
    IF heap[ref.a].alloc THEN {ref.snap, heap[ref.a].read_only} ELSE Values

\* let r = read_only_data_pointer.get(&data_key)
ReaderGet ==
    /\ key = "data"
    /\ ro_ptrs[Chan] > 0
    /\ roRef = NoRef
    /\ \E val \in Deref(Chan, "read_only") : roRef' = Ref("shared", Chan, val)
    /\ UNCHANGED <<heap, ro_ptrs, w_ptrs, key, last, wRef, observed, scenarioVars>>

\* The reader reads *r and logs the value.
ReaderRead ==
    /\ roRef # NoRef
    /\ Len(observed) < MaxObs
    /\ \E val \in ReadRef(roRef) : observed' = Append(observed, val)
    /\ UNCHANGED <<heap, ro_ptrs, w_ptrs, key, last, roRef, wRef, scenarioVars>>

\* r goes out of scope.
ReaderRelease ==
    /\ roRef # NoRef
    /\ roRef' = NoRef
    /\ UNCHANGED <<heap, ro_ptrs, w_ptrs, key, last, wRef, observed, scenarioVars>>

\* let w = writable_data_pointer.get(&data_key)
WriterGet ==
    /\ key = "data"
    /\ w_ptrs[Chan] > 0
    /\ wRef = NoRef
    /\ wRef' = Ref("shared", Chan, 0)
    /\ UNCHANGED <<heap, ro_ptrs, w_ptrs, key, last, roRef, observed, scenarioVars>>

\* let w = writable_data_pointer.get_mut(&data_key)
WriterGetMut ==
    /\ key = "data"
    /\ w_ptrs[Chan] > 0
    /\ wRef = NoRef
    /\ wRef' = Ref("mut", Chan, 0)
    /\ UNCHANGED <<heap, ro_ptrs, w_ptrs, key, last, roRef, observed, scenarioVars>>

\* *w = i, the next value of the sequence, once the previous one is flushed.
WriterWrite ==
    /\ pc = "write"
    /\ wRef.kind = "mut"
    /\ heap' = WriteThrough(wRef.a, test.i)
    /\ last' = Call("w_get_mut", wRef.a, <<>>)
    /\ pc' = "flush"
    /\ UNCHANGED <<ro_ptrs, w_ptrs, key, refVars, test>>

\* w goes out of scope.
WriterRelease ==
    /\ wRef # NoRef
    /\ wRef' = NoRef
    /\ UNCHANGED <<heap, ro_ptrs, w_ptrs, key, last, roRef, observed, scenarioVars>>

\* channel_pointer.flush(&channel_key), after each write.
FlusherFlush ==
    /\ pc = "flush"
    /\ FlushCall("flush", Chan, DirectedChannelPointer_flush(heap[Chan]))
    /\ pc' = IF test.i = test.n THEN "done" ELSE "write"
    /\ test' = [test EXCEPT !.i = @ + 1]
    /\ UNCHANGED refVars

Next3T ==
    \/ GetDataKey
    \/ GetChannelKey
    \/ IntoChannelKey
    \/ DropKey
    \/ ReaderGet
    \/ ReaderRead
    \/ ReaderRelease
    \/ WriterGet
    \/ WriterGetMut
    \/ WriterWrite
    \/ WriterRelease
    \/ FlusherFlush

Spec3T == Init3T /\ [][Next3T]_vars

----------------------------------------------------------------------------
\* The sequential scenarios. For n > 0, tests::test with n iterations in place
\* of 3: create(0, 0), then for i in 0..n: take a data key, assert that the
\* read-only pointer reads i, write i + 1, turn the key into a channel key and
\* flush; then destroy_single. For n = 0, create(read_only, writable) followed
\* at once by destroy or destroy_single with the pointers create returned.

InitSeq ==
    /\ heap = [a \in Addrs |-> Free]
    /\ ro_ptrs = [a \in Addrs |-> 0]
    /\ w_ptrs = [a \in Addrs |-> 0]
    /\ key = "none"
    /\ last = NoCall
    /\ roRef = NoRef
    /\ wRef = NoRef
    /\ observed = <<>>
    /\ pc = "create"
    /\ test \in {t \in [n : 0..MaxIter, i : {0}, read_only : Values, writable : Values] :
                    t.n > 0 => (t.read_only = 0 /\ t.writable = 0)}

\* The box of the scenario's channel: the one that is allocated.
SeqChan == CHOOSE a \in Addrs : heap[a].alloc

\* let (mut channel_pointer, read_only_data_pointer, mut writable_data_pointer) =
\*     DirectedChannel::create(read_only, writable)
SeqCreate ==
    /\ pc = "create"
    /\ \E a \in Addrs : CreateCall("create", a, test.read_only, test.writable)
    /\ pc' = IF test.n = 0 THEN "destroy" ELSE "key"
    /\ UNCHANGED <<refVars, test>>

\* let data_key = master_key.get_data_key()
SeqGetDataKey ==
    /\ pc = "key"
    /\ GetDataKeyCall
    /\ pc' = "read"
    /\ UNCHANGED <<refVars, test>>

\* assert_eq!(*read_only_data_pointer.get(&data_key), i)
SeqRead ==
    /\ pc = "read"
    /\ ReadOnlyGetCall(SeqChan)
    /\ pc' = IF last'.ret = <<test.i>> THEN "write" ELSE "failed"
    /\ UNCHANGED <<refVars, test>>

\* *writable_data_pointer.get_mut(&data_key) = i + 1
SeqWrite ==
    /\ pc = "write"
    /\ WritableGetMutCall(SeqChan, test.i + 1)
    /\ pc' = "convert"
    /\ UNCHANGED <<refVars, test>>

\* let channel_key = data_key.into_channel_key()
SeqIntoChannelKey ==
    /\ pc = "convert"
    /\ IntoChannelKeyCall
    /\ pc' = "flush"
    /\ UNCHANGED <<refVars, test>>

\* channel_pointer.flush(&channel_key)
SeqFlush ==
    /\ pc = "flush"
    /\ FlushCall("flush", SeqChan, DirectedChannelPointer_flush(heap[SeqChan]))
    /\ pc' = "next"
    /\ UNCHANGED <<refVars, test>>

\* The end of the loop body: channel_key goes out of scope, and i is counted up.
SeqNext ==
    /\ pc = "next"
    /\ DropKeyCall
    /\ test' = [test EXCEPT !.i = @ + 1]
    /\ pc' = IF test.i + 1 < test.n THEN "key" ELSE "destroy"
    /\ UNCHANGED refVars

\* DirectedChannel::destroy_single(channel_pointer, read_only_data_pointer,
\*     writable_data_pointer)
SeqDestroySingle ==
    /\ pc = "destroy"
    /\ DestroySingleCall(SeqChan, SeqChan, SeqChan)
    /\ pc' = "done"
    /\ UNCHANGED <<refVars, test>>

\* DirectedChannel::destroy(channel_pointer, [read_only_data_pointer],
\*     writable_data_pointer)
SeqDestroy ==
    /\ pc = "destroy"
    /\ DestroyCall("destroy", SeqChan, Single(SeqChan), SeqChan)
    /\ pc' = "done"
    /\ UNCHANGED <<refVars, test>>

NextSeq ==
    \/ SeqCreate
    \/ SeqGetDataKey
    \/ SeqRead
    \/ SeqWrite
    \/ SeqIntoChannelKey
    \/ SeqFlush
    \/ SeqNext
    \/ SeqDestroySingle
    \/ SeqDestroy

SpecSeq == InitSeq /\ [][NextSeq]_vars

----------------------------------------------------------------------------
\* Steps of a behaviour, told from the call record and the pointers consumed.

\* The step is a flush call on the channel of box a.
IsFlushStep(a) ==
    /\ last'.op \in FlushOps
    /\ last'.a = a
    /\ (last' # last \/ heap' # heap)

\* The step is a destroy or destroy_single call: it alone consumes a writable pointer.
IsDestroyStep ==
    /\ last'.op \in DestroyOps
    /\ w_ptrs' # w_ptrs

\* The step hands a pointer holding an address of box a to the call.
Consumes(a) ==
    ro_ptrs'[a] < ro_ptrs[a] \/ w_ptrs'[a] < w_ptrs[a]

----------------------------------------------------------------------------
\* C3. Flush postcondition: after a flush of a channel, its read_only slot holds
\* the value its writable slot held immediately before the flush, and its
\* writable slot is unchanged.
C3_FlushPostcondition ==
    [][\A a \in Addrs : IsFlushStep(a) =>
            /\ heap'[a].alloc
            /\ heap'[a].read_only = heap[a].writable
            /\ heap'[a].writable = heap[a].writable]_vars

\* A DirectedChannelPointer::flush has run, and both slots of its channel hold the
\* largest value.
C3_Witness ==
    /\ last.op = "flush"
    /\ heap[last.a].alloc
    /\ heap[last.a].read_only = MaxVal
    /\ heap[last.a].writable = MaxVal

\* C5. Flush idempotence: a flush that follows a flush of the same channel, with no
\* other call in between, leaves both slots as the first flush left them, and
\* these are equal.
C5_FlushIdempotent ==
    [][\A a \in Addrs : (last.op \in FlushOps /\ last.a = a /\ IsFlushStep(a)) =>
            /\ heap'[a] = heap[a]
            /\ heap'[a].read_only = heap'[a].writable]_vars

\* A second flush in a row has run on a live channel holding a value other than 0.
C5_Witness ==
    /\ last.op \in FlushOps
    /\ last.run = 2
    /\ heap[last.a].alloc
    /\ heap[last.a].read_only # 0

\* C7. Fatal teardown on mismatch: a destroy or destroy_single call that is handed
\* a writable or read-only pointer holding an address of another box than the
\* one being destroyed panics and returns no pair.
C7_MismatchPanics ==
    [][(IsDestroyStep /\ \E a \in Addrs : a # last'.a /\ Consumes(a)) =>
            /\ last'.panic
            /\ last'.ret = <<>>]_vars

\* A destroy_single call panicked while a second channel is alive.
C7_Witness ==
    /\ last.op = "destroy_single"
    /\ last.panic
    /\ \E b \in Addrs : b # last.a /\ heap[b].alloc

\* C8. Destruction invalidates every pointer: after a destroy or destroy_single
\* call has returned, no data pointer holding an address of the destroyed box
\* exists any more.
C8_DestroyInvalidatesAll ==
    (last.op \in DestroyOps /\ ~last.panic) =>
        /\ ro_ptrs[last.a] = 0
        /\ w_ptrs[last.a] = 0

\* C9. While data pointers to a box exist, its storage is released by destroy or
\* destroy_single only.
C9_OnlyDestroyReleases ==
    [][\A a \in Addrs :
            (heap[a].alloc /\ ~heap'[a].alloc /\ (ro_ptrs[a] > 0 \/ w_ptrs[a] > 0))
                => last'.op \in DestroyOps]_vars

\* C10. Dynamic-interface equivalence: whichever flush is called on a channel,
\* the channel's state after it is the one IDirectedChannel::flush,
\* DirectedChannelPointer::flush and DirectedChannel::flush each give from the
\* state before it.
C10_FlushesAgree ==
    [][\A a \in Addrs : IsFlushStep(a) =>
            /\ heap'[a] = IDirectedChannel_flush(heap[a])
            /\ heap'[a] = DirectedChannelPointer_flush(heap[a])
            /\ heap'[a] = DirectedChannel_flush(heap[a])]_vars

\* A flush through the dynamic interface has run on a live channel, and the
\* channel holds a value other than 0 in both slots.
C10_Witness ==
    /\ last.op = "dyn_flush"
    /\ heap[last.a].alloc
    /\ heap[last.a].read_only # 0
    /\ heap[last.a].read_only = heap[last.a].writable

\* C1. Mutual exclusion of data references and flush: no flush of a channel runs
\* while a reference that get or get_mut returned is live.
C1_NoFlushWhileReferenceLive ==
    [][\A a \in Addrs : IsFlushStep(a) => (roRef = NoRef /\ wRef = NoRef)]_vars

\* C2. Three-thread scenario: every value the reader reads is one of the written
\* values 0..n (the initial value is 0), and the values it reads never decrease.
C2_ReaderSeesWrittenNonDecreasing ==
    /\ \A j \in 1..Len(observed) : observed[j] \in 0..test.n
    /\ \A j \in 1..(Len(observed) - 1) : observed[j] <= observed[j + 1]

\* C4. Sequential protocol: from create(0, 0), at the start of each iteration the
\* read-only pointer reads the value the previous flush published (the number of
\* iterations done), and after n iterations of write x, flush (x = 1..n) both
\* slots hold n: destroy returns (n, n).
C4_SequentialProtocol ==
    /\ pc # "failed"
    /\ (pc = "write" => last.op = "ro_get" /\ last.ret = <<test.i>>)
    /\ ((pc = "destroy" /\ test.n > 0) =>
            heap[SeqChan].read_only = test.n /\ heap[SeqChan].writable = test.n)
    /\ ((pc = "done" /\ test.n > 0) => ~last.panic /\ last.ret = <<test.n, test.n>>)

\* The protocol has run its largest number of iterations and torn the channel down.
C4_Witness ==
    /\ pc = "done"
    /\ test.n = MaxIter
    /\ test.i = MaxIter
    /\ last.op = "destroy_single"

\* C6. Create/destroy round trip: create(a, b) followed at once by destroy or
\* destroy_single with the pointers of that create call returns (a, b).
C6_RoundTrip ==
    (pc = "done" /\ test.n = 0) =>
        /\ ~last.panic
        /\ last.ret = <<test.read_only, test.writable>>

\* A round trip of two different values has ended, through destroy.
C6_Witness ==
    /\ pc = "done"
    /\ test.n = 0
    /\ test.read_only # test.writable
    /\ last.op = "destroy"
    /\ Len(last.ret) = 2

\* The step is a create_equal call that put a channel into box a.
IsCreateEqualStep(a) ==
    /\ last'.op = "create_equal"
    /\ last'.a = a
    /\ ~heap[a].alloc
    /\ heap'[a].alloc

\* C11. create_equal(v) yields a channel whose read_only and writable slots both
\* hold v, one of the values of Data, right after creation: a read through the
\* read-only pointer and one through the writable pointer give the same value
\* before any flush.
C11_CreateEqualSlotsEqual ==
    [][\A a \in Addrs : IsCreateEqualStep(a) =>
            /\ \E v \in Values : heap'[a] = DirectedChannel(v, v)
            /\ heap'[a].read_only = heap'[a].writable
            /\ ro_ptrs'[a] = 1
            /\ w_ptrs'[a] = 1]_vars

\* create_equal has just made a channel holding the largest value, and no flush
\* has run since.
C11_Witness ==
    /\ last.op = "create_equal"
    /\ heap[last.a] = DirectedChannel(MaxVal, MaxVal)
    /\ MaxVal > 0

\* The step is a write through the writable pointer of box a.
IsWriteStep(a) ==
    /\ last'.op = "w_get_mut"
    /\ last'.a = a
    /\ (last' # last \/ heap' # heap)

\* C12. Flush is the sole mutator of read_only and the slots never alias: the
\* read_only slot of a channel that stays live changes only in a flush step of
\* that channel, a write through get_mut changes at most the writable slot, and
\* reads, copies of a read-only pointer and key steps leave the whole channel
\* unchanged.
C12_OnlyFlushMutatesReadOnly ==
    [][\A a \in Addrs : (heap[a].alloc /\ heap'[a].alloc) =>
            /\ heap'[a].read_only # heap[a].read_only => IsFlushStep(a)
            /\ IsWriteStep(a) => heap'[a].read_only = heap[a].read_only
            /\ (~IsFlushStep(a) /\ ~IsWriteStep(a)) => heap'[a] = heap[a]]_vars

\* A write has just put a value into writable that differs from the value
\* read_only still holds.
C12_Witness ==
    /\ last.op = "w_get_mut"
    /\ heap[last.a].alloc
    /\ heap[last.a].writable # heap[last.a].read_only

\* The value the channel of the three-thread scenario has published: the value
\* writable held at the most recent flush (the flush number test.i published the
\* written value test.i - 1), or the initial read_only value before any flush.
Published ==
    IF test.i = 0 THEN 0 ELSE test.i - 1

\* C13. Published-value semantics: every read through a read-only pointer gives
\* the value writable held at the most recent flush, or the initial read_only
\* value if no flush has run; here for each value the reader of the three-thread
\* scenario reads.
C13_ReadGivesPublishedValue ==
    [][Len(observed') > Len(observed) =>
            observed'[Len(observed')] = Published]_vars

\* The step is a destroy or destroy_single call on channel c that was given only
\* pointers holding the addresses of c's own slots, the ones its create call
\* returned and copies of them.
IsOwnDestroyStep(c) ==
    /\ IsDestroyStep
    /\ last'.a = c
    /\ w_ptrs'[c] < w_ptrs[c]
    /\ \A a \in Addrs \ {c} : ~Consumes(a)

\* C14. Address stability and teardown after use: whatever reads, writes and
\* flushes came before, a destroy of a channel with the pointers of its own
\* create call does not hit the mismatch condition and returns the pair
\* (current read_only, current writable).
C14_OwnPointersDestroy ==
    [][\A c \in Addrs : IsOwnDestroyStep(c) =>
            /\ ~last'.panic
            /\ last'.ret = <<heap[c].read_only, heap[c].writable>>]_vars

\* A destroy has returned a pair whose read_only value differs from its writable
\* value, the largest one.
C14_Witness ==
    /\ last.op \in DestroyOps
    /\ ~last.panic
    /\ last.ret[1] # last.ret[2]
    /\ last.ret[2] = MaxVal

\* C15. Read-only copies that are not presented go undetected: a destroy given the
\* channel's writable pointer and any part of its read-only pointers, none of them
\* included, returns and releases the channel, and the pointers left out still
\* exist afterwards, holding the address of the released box.
C15_OmittedCopiesUndetected ==
    [][\A c \in Addrs : IsOwnDestroyStep(c) =>
            /\ ~last'.panic
            /\ heap[c].alloc /\ ~heap'[c].alloc
            /\ \E n \in 0..ro_ptrs[c] : ro_ptrs'[c] = ro_ptrs[c] - n]_vars

\* A destroy given an empty collection has returned while every read-only copy of
\* the channel still exists, now holding the address of a released box.
C15_Witness ==
    /\ last.op = "destroy"
    /\ ~last.panic
    /\ ~heap[last.a].alloc
    /\ ro_ptrs[last.a] = MaxPtrs

IsFailedDestroyStep(c) ==
    /\ IsDestroyStep
    /\ last'.a = c
    /\ last'.panic

\* C17. A failed teardown is not a no-op: when destroy panics on a pointer that
\* does not match, the channel pointer, the writable pointer and the read-only
\* pointers given to the call are consumed and the box is released, so the
\* channel is not usable afterwards; the writable pointer is checked first, so a
\* panic at a read-only pointer means the writable pointer was the channel's own.
C17_FailedDestroyConsumes ==
    [][\A c \in Addrs : IsFailedDestroyStep(c) =>
            /\ heap[c].alloc /\ heap'[c] = Free
            /\ c \notin ChannelPointers'
            /\ \E wa \in Addrs : w_ptrs' = [w_ptrs EXCEPT ![wa] = @ - 1]
            /\ \A a \in Addrs : ro_ptrs'[a] <= ro_ptrs[a]
            /\ last'.ret = <<>>
            /\ last'.at = "writable" <=> w_ptrs'[c] = w_ptrs[c]
            /\ last'.at = "read_only" =>
                    /\ w_ptrs'[c] < w_ptrs[c]
                    /\ \E a \in Addrs \ {c} : ro_ptrs'[a] < ro_ptrs[a]]_vars

\* A destroy given another channel's writable pointer and another channel's
\* read-only pointer has panicked at the writable pointer; the box is released.
C17_Witness ==
    /\ last.op \in DestroyOps
    /\ last.panic
    /\ last.at = "writable"
    /\ ~heap[last.a].alloc
    /\ \E a \in Addrs \ {last.a} : heap[a].alloc /\ w_ptrs[a] = 0 /\ ro_ptrs[a] = 0

\* C18. Channel independence in a batch: a write, a flush through any of the three
\* entry points, or a destroy on one channel leaves the slots of every other
\* channel as they were; so a flush of one channel keeps a channel flushed before
\* it at read_only = writable, whatever the order of the flushes.
C18_ChannelsIndependent ==
    [][\A a, b \in Addrs :
            (a # b /\ (IsWriteStep(a) \/ IsFlushStep(a) \/ (IsDestroyStep /\ last'.a = a))) =>
                /\ heap'[b] = heap[b]
                /\ (IsFlushStep(a) /\ heap[b].alloc /\ heap[b].read_only = heap[b].writable) =>
                        /\ heap'[a].read_only = heap'[a].writable
                        /\ heap'[b].read_only = heap'[b].writable]_vars

\* Two live channels have been flushed one after the other through the dynamic
\* interface, and each holds its own value in both slots.
C18_Witness ==
    /\ last.op = "dyn_flush"
    /\ last.run = 1
    /\ \A a \in Addrs : heap[a].alloc /\ heap[a].read_only = heap[a].writable
    /\ \E a, b \in Addrs : heap[a].writable # heap[b].writable

====
